---- MODULE Spec2Model ----
(***************************************************************************)
(* GroupMeBot: the GroupMe class (REST client + smee/express event relay)  *)
(* and the shape parsers parseAttachment, parseCallback, parseGroup.       *)
(*                                                                         *)
(* JSON values are tagged records [kind, s, items]: a string/number/       *)
(* boolean scalar keeps its text in s, an array keeps its elements in      *)
(* items, and JavaScript's undefined is the value of kind "undefined".     *)
(* A JSON object is a function from its keys to JSON values.               *)
(***************************************************************************)
EXTENDS Integers, Sequences, FiniteSets, TLC

VARIABLES
    BOT_ID,        \* GroupMe.BOT_ID
    ACCESS_TOKEN,  \* GroupMe.ACCESS_TOKEN
    portTaken,     \* environment: another process already listens on PORT
    servers,       \* one http server per Start call: "bound" | "failed" | "listening"
    ticks,         \* FIFO of pending listen outcomes: [kind, srv]
    crashed,       \* the process died of an uncaught exception
    reqs,          \* inbound POST / requests, in order of arrival
    events,        \* everything this.emit was called with, in order
    calls,         \* invocations of the REST methods
    outbound       \* HTTP requests issued through this.SESSION, in order

vars == <<BOT_ID, ACCESS_TOKEN, portTaken, servers, ticks, crashed, reqs,
          events, calls, outbound>>

relayVars == <<portTaken, servers, ticks, crashed, reqs, events>>
restVars == <<calls, outbound>>
credVars == <<BOT_ID, ACCESS_TOKEN>>

-----------------------------------------------------------------------------
(* Bounds of the model *)

MaxStarts == 2
MaxReqs == 2
MaxAtt == 2
MaxCalls == 2
MaxGroups == 2

-----------------------------------------------------------------------------
(* JSON values *)

Undefined == [kind |-> "undefined", s |-> "", items |-> <<>>]
Str(x) == [kind |-> "string", s |-> x, items |-> <<>>]
Num(x) == [kind |-> "number", s |-> x, items |-> <<>>]
Bool(x) == [kind |-> "boolean", s |-> x, items |-> <<>>]
Arr(xs) == [kind |-> "array", s |-> "", items |-> xs]

\* json['k']: the value under k, undefined when the key is absent
Get(json, k) == IF k \in DOMAIN json THEN json[k] ELSE Undefined

-----------------------------------------------------------------------------
(* Attachment.ts / Callback.ts *)

parseAttachment(json) ==
    [type |-> Get(json, "type"), url |-> Get(json, "url")]

MutCanParseCallback(json) == TRUE

\* json['attachments'].map exists only on an array: on anything else the call
\* throws a TypeError
CanParseCallback(json) == Get(json, "attachments").kind = "array"

MutMapAttachments(items) ==
    [i \in 1..Len(items) |-> parseAttachment(items[Len(items) + 1 - i])]

\* json['attachments'].map((attach) => parseAttachment(attach))
MapAttachments(items) == [i \in 1..Len(items) |-> parseAttachment(items[i])]

parseCallback(json) ==
    [attachments |-> MapAttachments(Get(json, "attachments").items),
     avatar_url  |-> Get(json, "avatar_url"),
     created_at  |-> Get(json, "created_at"),
     group_id    |-> Get(json, "group_id"),
     id          |-> Get(json, "id"),
     name        |-> Get(json, "name"),
     sender_id   |-> Get(json, "sender_id"),
     sender_type |-> Get(json, "sender_type"),
     source_guid |-> Get(json, "source_guid"),
     system      |-> Get(json, "system"),
     text        |-> Get(json, "text"),
     user_id     |-> Get(json, "user_id")]

\* the value of `callback` when parseCallback threw
NoCallback == [error |-> "TypeError"]

-----------------------------------------------------------------------------
(* Inbound bodies *)

Image == [type |-> Str("image"), url |-> Str("https://i.groupme.com/1.jpeg")]
Location == [type |-> Str("location")]

BaseBody ==
    [created_at  |-> Num("1609459200"),
     group_id    |-> Str("12345"),
     id          |-> Str("777"),
     name        |-> Str("Sam"),
     sender_id   |-> Str("42"),
     source_guid |-> Str("96f12dc0"),
     system      |-> Bool("false"),
     text        |-> Str("hi"),
     user_id     |-> Str("42")]

\* f extended with k |-> v
With(f, k, v) == [x \in DOMAIN f \cup {k} |-> IF x = k THEN v ELSE f[x]]

\* the sender types the bodies go through: the three the relay knows, one it
\* does not, and none
SenderTypes == <<Str("user"), Str("system"), Str("bot"), Str("User"), Undefined>>

\* the attachments array of length n: image, location, image, ...
Attachments(n) == [i \in 1..n |-> IF i % 2 = 1 THEN Image ELSE Location]

\* f with k |-> v unless v is undefined
WithIf(f, k, v) == IF v = Undefined THEN f ELSE With(f, k, v)

\* The i-th body parseCallback can map: its sender type is the i-th of
\* SenderTypes, its attachments array has i (modulo MaxAtt + 1) elements, and
\* it carries an avatar_url when it carries no attachment.
GoodBody(i) ==
    LET n == i % (MaxAtt + 1) IN
    WithIf(WithIf(With(BaseBody, "attachments", Arr(Attachments(n))),
                  "sender_type", SenderTypes[(i % Len(SenderTypes)) + 1]),
           "avatar_url", IF n = 0 THEN Str("https://i.groupme.com/a") ELSE Undefined)

GoodBodies ==
    {GoodBody(i) : i \in 0..(IF MaxAtt < Len(SenderTypes) THEN Len(SenderTypes) - 1
                                                          ELSE MaxAtt)}

\* bodies parseCallback cannot map: no attachments field, and a string for one
BadBodies ==
    {With(BaseBody, "sender_type", Str("user")),
     With(With(BaseBody, "sender_type", Str("bot")), "attachments", Str("none"))}

Bodies == GoodBodies \cup BadBodies

-----------------------------------------------------------------------------
(* Event relay: GroupMe.Start *)

SpecificNames == {"user_msg", "system_msg", "bot_msg"}

\* the events a request's handler emits; any of their listeners may throw
Throwers == {"raw_callback"} \cup SpecificNames

\* the listeners that throw while one request is handled: the handler stops
\* at the first of them, so none or one at a time gives every outcome
ThrowerSets == {{}} \cup {{name} : name \in Throwers}

\* one call of this.emit(name, ...args); req and srv say which request's
\* handler or which server's listen callback made it
Emit(name, req, srv, args) == [name |-> name, req |-> req, srv |-> srv, args |-> args]

\* switch (callback.sender_type): the event of the matching case, "" for none
SpecificEvent(callback) ==
    CASE callback.sender_type = Str("user")   -> "user_msg"
      [] callback.sender_type = Str("system") -> "system_msg"
      [] callback.sender_type = Str("bot")    -> "bot_msg"
      [] OTHER -> ""

\* The body of the app.post('/') handler for request r with body `body`, when
\* the listeners of the events in thr throw. An exception leaving the handler
\* is answered by express with a 500 error page.
Ok200 == [status |-> 200, body |-> ""]
Err500 == [status |-> 500, body |-> "Internal Server Error"]

\* MutPostHandler: a handler that parses the body before it emits raw_callback
MutPostHandler(r, body, thr) ==
    LET raw == Emit("raw_callback", r, 0, <<body>>) IN
    IF ~CanParseCallback(body)
    THEN [emitted |-> <<>>, callback |-> NoCallback, threw |-> "parseCallback",
          res |-> Err500]
    ELSE LET callback == parseCallback(body)
             name == SpecificEvent(callback) IN
         [emitted |-> IF name = "" THEN <<raw>>
                      ELSE <<raw, Emit(name, r, 0, <<callback>>)>>,
          callback |-> callback, threw |-> "", res |-> Ok200]

PostHandler(r, body, thr) ==
    LET raw == Emit("raw_callback", r, 0, <<body>>) IN
    IF "raw_callback" \in thr
    THEN [emitted |-> <<raw>>, callback |-> NoCallback, threw |-> "raw_callback",
          res |-> Err500]
    ELSE IF ~CanParseCallback(body)
    THEN [emitted |-> <<raw>>, callback |-> NoCallback, threw |-> "parseCallback",
          res |-> Err500]
    ELSE LET callback == parseCallback(body)
             name == SpecificEvent(callback) IN
         IF name = ""
         THEN [emitted |-> <<raw>>, callback |-> callback, threw |-> "", res |-> Ok200]
         ELSE IF name \in thr
         THEN [emitted |-> <<raw, Emit(name, r, 0, <<callback>>)>>,
               callback |-> callback, threw |-> name, res |-> Err500]
         ELSE [emitted |-> <<raw, Emit(name, r, 0, <<callback>>)>>,
               callback |-> callback, threw |-> "", res |-> Ok200]

PortFree == ~portTaken /\ \A s \in DOMAIN servers : servers[s] = "failed"

MutListenCallback(s) == <<Emit("ready", 0, s, <<>>), Emit("ready", 0, s, <<>>)>>

\* the app.listen callback of server s
ListenCallback(s) == <<Emit("ready", 0, s, <<>>)>>

\* Start(): smee.start(), express(), app.post, app.listen. listen binds the
\* port at once and reports the outcome on a later tick.
Start ==
    /\ ~crashed
    /\ Len(servers) < MaxStarts
    /\ LET s == Len(servers) + 1 IN
       IF PortFree
       THEN /\ servers' = Append(servers, "bound")
            /\ ticks' = Append(ticks, [kind |-> "listening", srv |-> s])
       ELSE /\ servers' = Append(servers, "failed")
            /\ ticks' = Append(ticks, [kind |-> "error", srv |-> s])
    /\ UNCHANGED <<portTaken, crashed, reqs, events, restVars, credVars>>

\* MutTick: an 'error' of a later Start that closes the listening server
MutTick ==
    /\ ~crashed
    /\ ticks # <<>>
    /\ LET t == Head(ticks) IN
       \/ /\ t.kind = "listening"
          /\ servers' = [servers EXCEPT ![t.srv] = "listening"]
          /\ events' = events \o ListenCallback(t.srv)
          /\ \E throws \in BOOLEAN : crashed' = throws
       \/ /\ t.kind = "error"
          /\ servers' = [s \in DOMAIN servers |-> "failed"]
          /\ UNCHANGED <<crashed, events>>
    /\ ticks' = Tail(ticks)
    /\ UNCHANGED <<portTaken, reqs, restVars, credVars>>

\* The next pending listen outcome. 'listening' runs the app.listen callback;
\* a listener of 'ready' that throws, and an 'error' event nobody listens
\* to, are uncaught exceptions and end the process.
Tick ==
    /\ ~crashed
    /\ ticks # <<>>
    /\ LET t == Head(ticks) IN
       \/ /\ t.kind = "listening"
          /\ servers' = [servers EXCEPT ![t.srv] = "listening"]
          /\ events' = events \o ListenCallback(t.srv)
          /\ \E throws \in BOOLEAN : crashed' = throws
       \/ /\ t.kind = "error"
          /\ crashed' = TRUE
          /\ UNCHANGED <<servers, events>>
    /\ ticks' = Tail(ticks)
    /\ UNCHANGED <<portTaken, reqs, restVars, credVars>>

Listening == \E s \in DOMAIN servers : servers[s] = "listening"

\* smee.start() runs in Start, before app.listen: an event the tunnel forwards
\* to http://localhost:PORT while no server of this process listens there is
\* refused, or answered by the process that holds the port; app.post never
\* sees it.
Refused == [status |-> 0, body |-> ""]

ForwardUnbound(body) ==
    /\ ~crashed
    /\ servers # <<>>
    /\ ~Listening
    /\ Len(reqs) < MaxReqs
    /\ reqs' = Append(reqs, [body |-> body, state |-> "lost",
                             callback |-> NoCallback, threw |-> "", res |-> Refused])
    /\ UNCHANGED <<portTaken, servers, ticks, crashed, events, restVars, credVars>>

\* MutArrive: a listener that takes requests as soon as Start has run
MutArrive(body) ==
    /\ ~crashed
    /\ servers # <<>>
    /\ Len(reqs) < MaxReqs
    /\ reqs' = Append(reqs, [body |-> body, state |-> "received",
                             callback |-> NoCallback, threw |-> "", res |-> Ok200])
    /\ UNCHANGED <<portTaken, servers, ticks, crashed, events, restVars, credVars>>

\* A POST / reaches the listener (forwarded by smee or sent directly) and
\* bodyParser.json() has read its body.
Arrive(body) ==
    /\ ~crashed
    /\ Listening
    /\ Len(reqs) < MaxReqs
    /\ reqs' = Append(reqs, [body |-> body, state |-> "received",
                             callback |-> NoCallback, threw |-> "", res |-> Ok200])
    /\ UNCHANGED <<portTaken, servers, ticks, crashed, events, restVars, credVars>>

\* MutHandle: a handler that reads the body of the latest request
MutHandle(r, thr) ==
    /\ ~crashed
    /\ r \in DOMAIN reqs
    /\ reqs[r].state = "received"
    /\ LET h == PostHandler(r, reqs[Len(reqs)].body, thr) IN
       /\ events' = events \o h.emitted
       /\ reqs' = [reqs EXCEPT ![r] = [body |-> reqs[r].body, state |-> "done",
                                       callback |-> h.callback, threw |-> h.threw,
                                       res |-> h.res]]
    /\ UNCHANGED <<portTaken, servers, ticks, crashed, restVars, credVars>>

\* The route handler runs to completion for request r.
Handle(r, thr) ==
    /\ ~crashed
    /\ r \in DOMAIN reqs
    /\ reqs[r].state = "received"
    /\ LET h == PostHandler(r, reqs[r].body, thr) IN
       /\ events' = events \o h.emitted
       /\ reqs' = [reqs EXCEPT ![r] = [body |-> reqs[r].body, state |-> "done",
                                       callback |-> h.callback, threw |-> h.threw,
                                       res |-> h.res]]
    /\ UNCHANGED <<portTaken, servers, ticks, crashed, restVars, credVars>>

-----------------------------------------------------------------------------
(* Group.ts *)

GroupFields ==
    {"id", "group_id", "name", "phone_number", "type", "description", "image_url",
     "creator_user_id", "created_at", "updated_at", "max_members", "theme_name",
     "requires_approval", "show_join_question", "share_url", "member_count",
     "message_count"}

parseGroup(json) ==
    [id                 |-> Get(json, "id"),
     group_id           |-> Get(json, "group_id"),
     name               |-> Get(json, "name"),
     phone_number       |-> Get(json, "phone_number"),
     type               |-> Get(json, "type"),
     description        |-> Get(json, "description"),
     image_url          |-> Get(json, "image_url"),
     creator_user_id    |-> Get(json, "creator_user_id"),
     created_at         |-> Get(json, "created_at"),
     updated_at         |-> Get(json, "updated_at"),
     max_members        |-> Get(json, "max_members"),
     theme_name         |-> Get(json, "theme_name"),
     requires_approval  |-> Get(json, "requires_approval"),
     show_join_question |-> Get(json, "show_join_question"),
     share_url          |-> Get(json, "share_url"),
     member_count       |-> Get(json, "member_count"),
     message_count      |-> Get(json, "message_count")]

\* a complete group whose id and group_id differ, and a group that lacks
\* fields and carries one parseGroup does not read
FullGroup ==
    [id                 |-> Str("1"),
     group_id           |-> Str("2"),
     name               |-> Str("G"),
     phone_number       |-> Str("+1234567890"),
     type               |-> Str("private"),
     description        |-> Str("A community"),
     image_url          |-> Str("https://i.groupme.com/g"),
     creator_user_id    |-> Str("42"),
     created_at         |-> Num("1609459200"),
     updated_at         |-> Num("1609462800"),
     max_members        |-> Num("500"),
     theme_name         |-> Str("dark"),
     requires_approval  |-> Bool("true"),
     show_join_question |-> Bool("false"),
     share_url          |-> Str("https://groupme.com/join_group/1"),
     member_count       |-> Num("100"),
     message_count      |-> Num("1200")]

PartialGroup ==
    [id            |-> Str("7"),
     group_id      |-> Str("7"),
     name          |-> Str("H"),
     members       |-> Arr(<<>>),
     message_count |-> Num("3")]

\* the response array of length n: full, partial, full, ...
Groups(n) == [i \in 1..n |-> IF i % 2 = 1 THEN FullGroup ELSE PartialGroup]

-----------------------------------------------------------------------------
(* REST client *)

Statuses == {200, 202, 204, 500}
MetaCodes == {200, 401}

Pending == [kind |-> "pending"]
Resolved(value) == [kind |-> "resolved", value |-> value]
Rejected(message) == [kind |-> "rejected", message |-> message]

\* new Error(`Invalid server status code. Expected <expected>, received: ${status}`)
StatusError(expected, status) ==
    Rejected(<<"Invalid server status code. Expected ", ToString(expected),
               ", received: ", ToString(status)>>)

\* new Error(`Invalid meta code. Expected 200, received: ${json['meta']['code']}`)
MetaError(code) ==
    Rejected(<<"Invalid meta code. Expected ", ToString(200),
               ", received: ", ToString(code)>>)

\* an outbound request: the URL is its path and its query parameters, the
\* body a sequence holding the JSON.stringify'd object when there is one
Request(method, path, query, body) ==
    [method |-> method, path |-> path, query |-> query, body |-> body]

TokenQuery == << <<"token", ACCESS_TOKEN>> >>

FindGroupsRequest ==
    Request("GET", <<"v3", "groups">>, TokenQuery, <<>>)

MutFindGroupsResult(response) ==
    IF response.status # 200 THEN StatusError(200, response.status)
    ELSE Resolved([i \in 1..Len(response.data.response) |->
                      parseGroup(response.data.response[i])])

FindGroupsResult(response) ==
    IF response.status # 200 THEN StatusError(200, response.status)
    ELSE IF response.data.meta.code # 200 THEN MetaError(response.data.meta.code)
    ELSE Resolved([i \in 1..Len(response.data.response) |->
                      parseGroup(response.data.response[i])])

MutSendMessageRequest(content) ==
    Request("POST", <<"v3", "bots", "post">>, TokenQuery,
            <<[text |-> content, bot_id |-> BOT_ID]>>)

SendMessageRequest(content) ==
    Request("POST", <<"v3", "bots", "post">>, <<>>,
            <<[text |-> content, bot_id |-> BOT_ID]>>)

MutSendMessageResult(response) ==
    IF response.status # 200 THEN StatusError(202, response.status)
    ELSE Resolved(TRUE)

SendMessageResult(response) ==
    IF response.status # 202 THEN StatusError(202, response.status)
    ELSE Resolved(TRUE)

DeleteMessageRequest(group_id, message_id) ==
    Request("DELETE", <<"v3", "conversations", group_id, "messages", message_id>>,
            TokenQuery, <<>>)

DeleteMessageResult(response) ==
    IF response.status # 204 THEN StatusError(204, response.status)
    ELSE Resolved(TRUE)

LikeMessageRequest(conversation_id, message_id) ==
    Request("POST", <<"v3", "messages", conversation_id, message_id, "like">>,
            TokenQuery, <<>>)

LikeMessageResult(response) ==
    IF response.status # 200 THEN StatusError(200, response.status)
    ELSE Resolved(TRUE)

UnlikeMessageRequest(conversation_id, message_id) ==
    Request("POST", <<"v3", "messages", conversation_id, message_id, "unlike">>,
            TokenQuery, <<>>)

UnlikeMessageResult(response) ==
    IF response.status # 200 THEN StatusError(200, response.status)
    ELSE Resolved(TRUE)

UpdateNicknameRequest(group_id, nickname) ==
    Request("POST", <<"v3", "groups", group_id, "memberships", "update">>,
            TokenQuery, <<[membership |-> [nickname |-> nickname]]>>)

UpdateNicknameResult(response) ==
    IF response.status # 200 THEN StatusError(200, response.status)
    ELSE Resolved(TRUE)

\* MutInvoke: methods that work only once the relay listens
MutInvoke(op, args, request) ==
    /\ ~crashed
    /\ Listening
    /\ Len(calls) < MaxCalls
    /\ calls' = Append(calls, [op |-> op, args |-> args, status |-> 0,
                               data |-> <<>>, result |-> Pending])
    /\ outbound' = Append(outbound, [call |-> Len(calls) + 1, request |-> request])
    /\ UNCHANGED <<relayVars, credVars>>

\* A method runs up to its await: the request goes out and the call is
\* left pending on the response.
Invoke(op, args, request) ==
    /\ ~crashed
    /\ Len(calls) < MaxCalls
    /\ calls' = Append(calls, [op |-> op, args |-> args, status |-> 0,
                               data |-> <<>>, result |-> Pending])
    /\ outbound' = Append(outbound, [call |-> Len(calls) + 1, request |-> request])
    /\ UNCHANGED <<relayVars, credVars>>

FindGroups == Invoke("FindGroups", <<>>, FindGroupsRequest)

SendMessage(content) == Invoke("SendMessage", <<content>>, SendMessageRequest(content))

DeleteMessage(group_id, message_id) ==
    Invoke("DeleteMessage", <<group_id, message_id>>,
           DeleteMessageRequest(group_id, message_id))

LikeMessage(conversation_id, message_id) ==
    Invoke("LikeMessage", <<conversation_id, message_id>>,
           LikeMessageRequest(conversation_id, message_id))

UnlikeMessage(conversation_id, message_id) ==
    Invoke("UnlikeMessage", <<conversation_id, message_id>>,
           UnlikeMessageRequest(conversation_id, message_id))

UpdateNickname(group_id, nickname) ==
    Invoke("UpdateNickname", <<group_id, nickname>>,
           UpdateNicknameRequest(group_id, nickname))

\* what the method of call c makes of the response it awaited
ResultOf(op, response) ==
    CASE op = "FindGroups"     -> FindGroupsResult(response)
      [] op = "SendMessage"    -> SendMessageResult(response)
      [] op = "DeleteMessage"  -> DeleteMessageResult(response)
      [] op = "LikeMessage"    -> LikeMessageResult(response)
      [] op = "UnlikeMessage"  -> UnlikeMessageResult(response)
      [] op = "UpdateNickname" -> UpdateNicknameResult(response)

\* MutResponse: a method that sends its request again on an unexpected status
MutResponse(c, response) ==
    /\ ~crashed
    /\ c \in DOMAIN calls
    /\ calls[c].result = Pending
    /\ LET result == ResultOf(calls[c].op, response) IN
       IF result.kind = "rejected"
       THEN /\ outbound' = Append(outbound, [call |-> c, request |->
                                   (CHOOSE o \in {outbound[i] : i \in DOMAIN outbound} :
                                       o.call = c).request])
            /\ UNCHANGED calls
       ELSE /\ calls' = [calls EXCEPT ![c] =
                           [op |-> calls[c].op, args |-> calls[c].args,
                            status |-> response.status, data |-> response.data,
                            result |-> result]]
            /\ UNCHANGED outbound
    /\ UNCHANGED <<relayVars, credVars>>

\* The awaited response of call c arrives (validateStatus: () => true, so
\* every status resolves the await) and the method runs to its end.
Response(c, response) ==
    /\ ~crashed
    /\ c \in DOMAIN calls
    /\ calls[c].result = Pending
    /\ calls' = [calls EXCEPT ![c] =
                    [op |-> calls[c].op, args |-> calls[c].args,
                     status |-> response.status, data |-> response.data,
                     result |-> ResultOf(calls[c].op, response)]]
    /\ UNCHANGED <<outbound, relayVars, credVars>>

\* the responses the API host can give: any status; to GET /v3/groups an
\* envelope, whose response array has every length when status and meta
\* code are 200
Envelope(code, n) == <<[meta |-> [code |-> code], response |-> Groups(n)]>>

Responses(op) ==
    IF op = "FindGroups"
    THEN {[status |-> st, data |-> Envelope(mc, MaxGroups)[1]] :
            st \in Statuses, mc \in MetaCodes}
         \cup {[status |-> 200, data |-> Envelope(200, n)[1]] : n \in 0..MaxGroups}
    ELSE {[status |-> st, data |-> [none |-> TRUE]] : st \in Statuses}

-----------------------------------------------------------------------------
(* The bot of index.ts: groupMe.on('user_msg', ...) sends a message *)

\* The route handler runs to completion for request r while the listener of
\* user_msg calls groupMe.SendMessage(content): the method runs up to its
\* await inside the emit, and its promise is left to itself.
HandleSending(r, content) ==
    /\ ~crashed
    /\ r \in DOMAIN reqs
    /\ reqs[r].state = "received"
    /\ Len(calls) < MaxCalls
    /\ LET h == PostHandler(r, reqs[r].body, {}) IN
       /\ \E i \in DOMAIN h.emitted : h.emitted[i].name = "user_msg"
       /\ events' = events \o h.emitted
       /\ reqs' = [reqs EXCEPT ![r] = [body |-> reqs[r].body, state |-> "done",
                                       callback |-> h.callback, threw |-> h.threw,
                                       res |-> h.res]]
    /\ calls' = Append(calls, [op |-> "SendMessage", args |-> <<content>>,
                               status |-> 0, data |-> <<>>, result |-> Pending])
    /\ outbound' = Append(outbound, [call |-> Len(calls) + 1,
                                     request |-> SendMessageRequest(content)])
    /\ UNCHANGED <<portTaken, servers, ticks, crashed, credVars>>

\* what reaches the bot: a user's message and a body without attachments
BotBodies == {GoodBody(0), With(BaseBody, "sender_type", Str("user"))}

\* the answers the API host gives the bot: accepted or not
BotResponses(op) ==
    IF op = "FindGroups"
    THEN {[status |-> 200, data |-> Envelope(mc, 1)[1]] : mc \in MetaCodes}
    ELSE {[status |-> st, data |-> [none |-> TRUE]] : st \in {200, 202}}

-----------------------------------------------------------------------------

Init ==
    /\ BOT_ID = "448ff6a2"
    /\ ACCESS_TOKEN = "1My7L658"
    /\ portTaken \in BOOLEAN
    /\ servers = <<>>
    /\ ticks = <<>>
    /\ crashed = FALSE
    /\ reqs = <<>>
    /\ events = <<>>
    /\ calls = <<>>
    /\ outbound = <<>>

NextRelay ==
    \/ Start
    \/ Tick
    \/ \E body \in Bodies : ForwardUnbound(body)
    \/ \E body \in Bodies : Arrive(body)
    \/ \E r \in 1..MaxReqs, thr \in ThrowerSets : Handle(r, thr)

SpecRelay == Init /\ [][NextRelay]_vars

NextRest ==
    \/ FindGroups
    \/ SendMessage("hello")
    \/ DeleteMessage("12345", "777")
    \/ LikeMessage("12345", "777")
    \/ UnlikeMessage("12345", "777")
    \/ UpdateNickname("12345", "Steve")
    \/ \E c \in 1..MaxCalls :
          \E response \in Responses(IF c \in DOMAIN calls THEN calls[c].op ELSE "") :
              Response(c, response)

SpecRest == Init /\ [][NextRest]_vars

\* the listen outcome queued by Start is delivered by the event loop
SpecRelayFair == SpecRelay /\ WF_vars(Tick)

\* index.ts: the listener that sends, Start, and FindGroups from the top level
NextBot ==
    \/ Start
    \/ Tick
    \/ \E body \in BotBodies : ForwardUnbound(body)
    \/ \E body \in BotBodies : Arrive(body)
    \/ \E r \in 1..MaxReqs : Handle(r, {})
    \/ \E r \in 1..MaxReqs : HandleSending(r, "alhumdulilah")
    \/ FindGroups
    \/ SendMessage("hello")
    \/ \E c \in 1..MaxCalls :
          \E response \in BotResponses(IF c \in DOMAIN calls THEN calls[c].op ELSE "") :
              Response(c, response)

SpecBot == Init /\ [][NextBot]_vars

Next == NextRelay \/ NextRest

Spec == Init /\ [][Next]_vars

-----------------------------------------------------------------------------
(* Properties *)

\* the events emitted so far with this name by the handler of request r
EventsOf(name, r) ==
    {i \in DOMAIN events : events[i].name = name /\ events[i].req = r}

TypedNames == {"callback", "user_msg", "system_msg", "bot_msg"}

Done(r) == r \in DOMAIN reqs /\ reqs[r].state = "done"

\* the body of request r has an attachments array, so parseCallback maps it
Parses(r) == Get(reqs[r].body, "attachments").kind = "array"

SenderType(r) == Get(reqs[r].body, "sender_type")

\* the sender-type-specific event the relay owes a sender_type, "" for none
Owed(st) ==
    IF st = Str("user") THEN "user_msg"
    ELSE IF st = Str("system") THEN "system_msg"
    ELSE IF st = Str("bot") THEN "bot_msg"
    ELSE ""

\* C1: every handled POST whose body parses has exactly one sender-type-
\* specific event, the one of its sender_type, when sender_type is "user",
\* "system" or "bot", and none of the three for any other sender_type.
C1_OneSpecificEvent ==
    \A r \in DOMAIN reqs :
        (Done(r) /\ Parses(r)) =>
            \A name \in SpecificNames :
                Cardinality(EventsOf(name, r)) =
                    IF name = Owed(SenderType(r)) THEN 1 ELSE 0

\* C2: every handled POST has exactly one raw_callback carrying its body
\* verbatim and, when its body parsed, exactly one generic callback event
\* carrying the typed record, whatever its sender_type.
C2_RawAndGenericCallback ==
    \A r \in DOMAIN reqs :
        Done(r) =>
            /\ Cardinality(EventsOf("raw_callback", r)) = 1
            /\ \A i \in EventsOf("raw_callback", r) : events[i].args = <<reqs[r].body>>
            /\ (reqs[r].callback # NoCallback) =>
                  /\ Cardinality(EventsOf("callback", r)) = 1
                  /\ \A i \in EventsOf("callback", r) :
                        events[i].args = <<reqs[r].callback>>

\* C3: every handled POST is answered 200 with an empty body, whether or not
\* its body parses and whatever the listeners do.
C3_Always200 ==
    \A r \in DOMAIN reqs :
        Done(r) => reqs[r].res = [status |-> 200, body |-> ""]

\* C4: for a handled POST whose body parses, raw_callback is the first event
\* of the request, every typed event of the request comes after it, and the
\* request is answered 200 with an empty body.
C4_RawFirstThen200 ==
    \A r \in DOMAIN reqs :
        (Done(r) /\ Parses(r)) =>
            /\ \E i \in EventsOf("raw_callback", r) :
                  \A j \in DOMAIN events :
                      (events[j].req = r /\ j # i) =>
                          (j > i /\ events[j].name \in TypedNames)
            /\ reqs[r].res = [status |-> 200, body |-> ""]

ReadyOf(s) == {i \in DOMAIN events : events[i].name = "ready" /\ events[i].srv = s}

Bound(s) == s \in DOMAIN servers /\ servers[s] = "bound"

\* ready is emitted at most once per Start, with no payload, and only by
\* the listen callback of a Start whose bind succeeded
ReadyOnlyAfterBind ==
    /\ \A i \in DOMAIN events :
          events[i].name = "ready" =>
              events[i].srv \in DOMAIN servers /\ events[i].args = <<>>
    /\ \A s \in DOMAIN servers :
          /\ Cardinality(ReadyOf(s)) <= 1
          /\ servers[s] = "listening" <=> Cardinality(ReadyOf(s)) = 1

\* C5: once a Start has bound the listener, ready is eventually emitted for
\* it, exactly once and with no payload; ready is never emitted before Start
\* nor for a Start whose bind failed.
C5_ReadyOncePerBoundStart ==
    /\ []ReadyOnlyAfterBind
    /\ \A s \in 1..MaxStarts : Bound(s) ~> (Cardinality(ReadyOf(s)) = 1)

C5_Witness ==
    \E s \in DOMAIN servers :
        /\ servers[s] = "listening"
        /\ Cardinality(ReadyOf(s)) = 1
        /\ \E t \in DOMAIN servers : servers[t] = "failed"

\* the status each boolean operation expects
ExpectedCode(op) ==
    CASE op = "SendMessage"    -> 202
      [] op = "DeleteMessage"  -> 204
      [] op = "LikeMessage"    -> 200
      [] op = "UnlikeMessage"  -> 200
      [] op = "UpdateNickname" -> 200

BooleanOps ==
    {"SendMessage", "DeleteMessage", "LikeMessage", "UnlikeMessage", "UpdateNickname"}

\* the error message contains the number n
Mentions(message, n) == \E i \in DOMAIN message : message[i] = ToString(n)

Settled(c) == c \in DOMAIN calls /\ calls[c].result # Pending

\* C6: a settled SendMessage, DeleteMessage, LikeMessage, UnlikeMessage or
\* UpdateNickname resolved to true iff the response status is its expected
\* code, and otherwise failed with a message that contains the expected code
\* and the status.
C6_StatusContract ==
    \A c \in DOMAIN calls :
        (Settled(c) /\ calls[c].op \in BooleanOps) =>
            IF calls[c].status = ExpectedCode(calls[c].op)
            THEN calls[c].result = [kind |-> "resolved", value |-> TRUE]
            ELSE /\ calls[c].result.kind = "rejected"
                 /\ Mentions(calls[c].result.message, ExpectedCode(calls[c].op))
                 /\ Mentions(calls[c].result.message, calls[c].status)

C6_Witness ==
    /\ \E c \in DOMAIN calls :
          /\ calls[c].op = "SendMessage"
          /\ calls[c].status = 500
          /\ calls[c].result.kind = "rejected"
    /\ \E c \in DOMAIN calls :
          /\ calls[c].op = "SendMessage"
          /\ calls[c].status = 202
          /\ calls[c].result.kind = "resolved"

\* C7: a settled FindGroups succeeded iff status and meta code are 200; its
\* value then has the length and order of the response array, every Group
\* field equal to the same-named input field. With a status other than 200
\* it failed naming 200 and the status, whatever the body; with status 200
\* and another meta code it failed naming 200 and the meta code.
C7_FindGroups ==
    \A c \in DOMAIN calls :
        (Settled(c) /\ calls[c].op = "FindGroups") =>
            LET k == calls[c]
                in == k.data.response
            IN  /\ k.result.kind = "resolved" <=>
                      (k.status = 200 /\ k.data.meta.code = 200)
                /\ k.result.kind = "resolved" =>
                      /\ Len(k.result.value) = Len(in)
                      /\ \A i \in 1..Len(in) : \A f \in GroupFields :
                            k.result.value[i][f] = Get(in[i], f)
                /\ k.status # 200 =>
                      /\ k.result.kind = "rejected"
                      /\ k.result.message[1] = "Invalid server status code. Expected "
                      /\ Mentions(k.result.message, 200)
                      /\ Mentions(k.result.message, k.status)
                /\ (k.status = 200 /\ k.data.meta.code # 200) =>
                      /\ k.result.kind = "rejected"
                      /\ k.result.message[1] = "Invalid meta code. Expected "
                      /\ Mentions(k.result.message, 200)
                      /\ Mentions(k.result.message, k.data.meta.code)

C7_Witness ==
    /\ \E c \in DOMAIN calls :
          /\ calls[c].op = "FindGroups"
          /\ calls[c].result.kind = "resolved"
          /\ Len(calls[c].result.value) = MaxGroups
    /\ \E c \in DOMAIN calls :
          /\ calls[c].op = "FindGroups"
          /\ calls[c].status = 200
          /\ calls[c].result.kind = "rejected"

RequestsOf(c) == {i \in DOMAIN outbound : outbound[i].call = c}

\* C8: every invocation of a REST operation has issued exactly one outbound
\* request, also after it failed on an unexpected status.
C8_NoRetry ==
    /\ Len(outbound) = Len(calls)
    /\ \A c \in DOMAIN calls : Cardinality(RequestsOf(c)) = 1

C8_Witness ==
    /\ Len(calls) = MaxCalls
    /\ \A c \in DOMAIN calls :
          calls[c].result.kind = "rejected" /\ Cardinality(RequestsOf(c)) = 1
    /\ \E c \in DOMAIN calls : calls[c].op = "FindGroups"

\* C9: every request of an operation other than SendMessage has the stored
\* access token as its token query parameter; a SendMessage request has no
\* query parameter and its JSON body is the text with the stored bot id.
C9_TokenOrBotId ==
    \A i \in DOMAIN outbound :
        LET o == outbound[i].request
            k == calls[outbound[i].call]
        IN  IF k.op = "SendMessage"
            THEN /\ o.query = <<>>
                 /\ o.body = <<[text |-> k.args[1], bot_id |-> BOT_ID]>>
            ELSE /\ Len(o.query) = 1
                 /\ o.query[1] = <<"token", ACCESS_TOKEN>>

C9_Witness ==
    /\ \E i \in DOMAIN outbound : calls[outbound[i].call].op = "SendMessage"
    /\ \E i \in DOMAIN outbound : calls[outbound[i].call].op = "UpdateNickname"

OtherCallbackFields ==
    {"avatar_url", "created_at", "group_id", "id", "name", "sender_id",
     "sender_type", "source_guid", "system", "text", "user_id"}

\* parseCallback was applied to the body of request r
Parsed(r) == Done(r) /\ reqs[r].threw # "raw_callback"

\* C10: parseCallback applied to a body whose attachments field is an array
\* of length N returned a record whose attachments has length N with
\* parseAttachment of the i-th input element at i, and every other field
\* equal to the same-named input field, also when avatar_url is absent.
C10_ParseCallback ==
    \A r \in DOMAIN reqs :
        (Parsed(r) /\ Parses(r)) =>
            LET in == reqs[r].body
                out == reqs[r].callback
            IN  /\ out # NoCallback
                /\ Len(out.attachments) = Len(in.attachments.items)
                /\ \A i \in 1..Len(in.attachments.items) :
                      out.attachments[i] = parseAttachment(in.attachments.items[i])
                /\ \A f \in OtherCallbackFields : out[f] = Get(in, f)

C10_Witness ==
    \E r \in DOMAIN reqs :
        /\ Parsed(r)
        /\ Parses(r)
        /\ "avatar_url" \notin DOMAIN reqs[r].body
        /\ Len(reqs[r].body.attachments.items) = MaxAtt
        /\ Len(reqs[r].callback.attachments) = MaxAtt

\* C11: parseCallback applied to a body without attachments field failed
\* with an error and returned no record, with no empty sequence in its place.
C11_MissingAttachmentsFails ==
    \A r \in DOMAIN reqs :
        (Parsed(r) /\ "attachments" \notin DOMAIN reqs[r].body) =>
            /\ reqs[r].callback = NoCallback
            /\ reqs[r].threw = "parseCallback"

C11_Witness ==
    \E r \in DOMAIN reqs :
        /\ Parsed(r)
        /\ "attachments" \notin DOMAIN reqs[r].body
        /\ reqs[r].threw = "parseCallback"

\* C14: a request whose body parseCallback failed on (attachments missing or
\* not an array) has exactly one raw_callback event and no callback,
\* user_msg, system_msg or bot_msg event.
C14_ParseFailureEvents ==
    \A r \in DOMAIN reqs :
        (Parsed(r) /\ ~Parses(r)) =>
            /\ Cardinality(EventsOf("raw_callback", r)) = 1
            /\ \A name \in TypedNames : EventsOf(name, r) = {}

C14_Witness ==
    /\ \E r \in DOMAIN reqs :
          Parsed(r) /\ "attachments" \notin DOMAIN reqs[r].body
    /\ \E r \in DOMAIN reqs :
          Parsed(r) /\ ~Parses(r) /\ "attachments" \in DOMAIN reqs[r].body

\* C15: the events of one request are contiguous in the order of emission,
\* and each carries its own request's body: raw_callback the body itself,
\* a typed event the record parsed from it.
C15_ContiguousOwnBody ==
    /\ \A i, j \in DOMAIN events :
          (i < j /\ events[i].req # 0 /\ events[i].req = events[j].req) =>
              \A k \in i..j : events[k].req = events[i].req
    /\ \A i \in DOMAIN events :
          events[i].req # 0 =>
              IF events[i].name = "raw_callback"
              THEN events[i].args = <<reqs[events[i].req].body>>
              ELSE events[i].args = <<parseCallback(reqs[events[i].req].body)>>

C15_Witness ==
    \E i, j \in DOMAIN events :
        /\ i < j
        /\ events[i].req > events[j].req
        /\ events[j].req # 0
        /\ events[i].name \in SpecificNames
        /\ events[j].name \in SpecificNames
        /\ reqs[events[i].req].body # reqs[events[j].req].body

WebhookNames == {"raw_callback"} \cup TypedNames

\* C16: every raw_callback, callback, user_msg, system_msg and bot_msg event
\* comes after the ready event of the Start whose server listens, and an
\* event the tunnel forwarded before that has no event at all.
C16_NothingBeforeReady ==
    /\ \A i \in DOMAIN events :
          events[i].name \in WebhookNames =>
              \E j \in 1..(i - 1) :
                  /\ events[j].name = "ready"
                  /\ servers[events[j].srv] = "listening"
    /\ \A r \in DOMAIN reqs :
          reqs[r].state = "lost" =>
              \A i \in DOMAIN events : events[i].req # r

C16_Witness ==
    /\ \E r \in DOMAIN reqs : reqs[r].state = "lost"
    /\ \E i \in DOMAIN events : events[i].name \in SpecificNames
    /\ events[1].name = "ready"

WebhookEvents == {i \in DOMAIN events : events[i].name \in WebhookNames}

\* C12: the relay starts Stopped (no server listens); it becomes Listening
\* only when a server that a Start bound starts to listen; once Listening it
\* stays Listening under every operation; and a step that emits a webhook
\* event is a step of a Listening relay.
C12_StoppedThenListening ==
    /\ ~Listening
    /\ [][Listening => Listening']_vars
    /\ [][(~Listening /\ Listening') =>
            \E s \in DOMAIN servers :
                servers[s] = "bound" /\ servers'[s] = "listening"]_vars
    /\ [][(WebhookEvents' # WebhookEvents) => (Listening /\ Listening')]_vars

C12_Witness ==
    /\ Listening
    /\ Len(servers) = MaxStarts
    /\ WebhookEvents # {}
    /\ \E c \in DOMAIN calls : calls[c].result.kind = "rejected"
    /\ \E r \in DOMAIN reqs : reqs[r].state = "lost"

\* a step of a REST operation: a call is issued or settled
RestStep == calls' # calls \/ outbound' # outbound

\* the step is the route handler of one request, and what it adds to the
\* events is that request's
HandlerStep ==
    \E r \in DOMAIN reqs :
        /\ reqs[r].state = "received"
        /\ reqs'[r].state = "done"
        /\ reqs'[r].body = reqs[r].body
        /\ \A q \in DOMAIN reqs : q # r => reqs'[q] = reqs[q]
        /\ DOMAIN reqs' = DOMAIN reqs
        /\ Len(events') > Len(events)
        /\ SubSeq(events', 1, Len(events)) = events
        /\ \A i \in (Len(events) + 1)..Len(events') : events'[i].req = r

\* C13: a step in which a REST call is issued or settled leaves the servers,
\* the pending listen outcomes and the credentials as they are, and emits
\* nothing, unless it is the step of the route handler whose listener issued
\* the call, which emits that request's events only; and while the process
\* lives a call can be issued and a pending call can be settled, whether or
\* not the relay listens.
C13_RestIndependentOfRelay ==
    /\ [][RestStep =>
            /\ servers' = servers
            /\ ticks' = ticks
            /\ crashed' = crashed
            /\ BOT_ID' = BOT_ID
            /\ ACCESS_TOKEN' = ACCESS_TOKEN
            /\ \/ events' = events /\ reqs' = reqs
               \/ HandlerStep]_vars
    /\ [](~crashed =>
            /\ Len(calls) < MaxCalls => ENABLED SendMessage("hello")
            /\ Len(calls) < MaxCalls => ENABLED FindGroups
            /\ \A c \in DOMAIN calls :
                  calls[c].result = Pending =>
                      \A response \in BotResponses(calls[c].op) :
                          ENABLED Response(c, response))

C13_Witness ==
    /\ \E c \in DOMAIN calls :
          /\ calls[c].args = <<"alhumdulilah">>
          /\ calls[c].result.kind = "resolved"
    /\ \E c \in DOMAIN calls :
          /\ calls[c].op = "FindGroups"
          /\ calls[c].result.kind = "rejected"
====
